---- MODULE Spec2Model ----
(***************************************************************************)
(* The four extraction nodes of api_medium/pipelines/data_processing       *)
(* (extract_users, fetch_user_articles_info, fetch_publications_info,      *)
(* fetch_top_feeds): the accumulation loop over the entities the Medium    *)
(* API returns, then the optional append of every accumulated DataFrame to *)
(* BigQuery.  One run of one node is one behaviour.                        *)
(***************************************************************************)
EXTENDS Integers, Sequences, FiniteSets, TLC

\* ------------------------------------------------------------------ bounds
MaxLen == 3       \* longest list the API returns for a multi-valued attribute
MaxDescLen == 3   \* longest publication description, in characters
MaxTags == 2      \* longest tag list of a publication under SpecScore

\* ------------------------------------------------------------- API values
\* pandas' missing value (what explode puts for an empty list) and Python's None
NaN == "NaN"
None == "None"

\* A value an attribute access gives: a Python list, None, or an exception.
ListOf(s) == [kind |-> "list", items |-> s]
NoneVal == [kind |-> "none", items |-> <<>>]
Raises == [kind |-> "raise", items |-> <<>>]

\* identifiers the API hands out inside lists
ElemIds == <<"x1", "x2", "x3", "x4">>
IdList(k) == [j \in 1..k |-> ElemIds[k - j + 1]]
\* the lists the API may return: an empty one and one of MaxLen elements
Lists == {ListOf(IdList(0)), ListOf(IdList(MaxLen))}

\* Python truthiness of a popped value: None and [] are falsy
Truthy(v) == v.kind = "list" /\ Len(v.items) > 0

\* Explode with the rows of a list sorted by child (the lists here descend)
SortedExplode(p, v) ==
    IF v.kind = "list" /\ Len(v.items) > 0
    THEN [j \in 1..Len(v.items) |->
            [parent |-> p, child |-> v.items[Len(v.items) + 1 - j]]]
    ELSE IF v.kind = "list"
         THEN << [parent |-> p, child |-> NaN] >>
         ELSE << [parent |-> p, child |-> None] >>

\* DataFrame([{parent: p, child: v}]).explode(child): one row per element of
\* a non-empty list, one NaN row for an empty list, the row itself for a scalar
Explode(p, v) ==
    IF Truthy(v)
    THEN [j \in 1..Len(v.items) |-> [parent |-> p, child |-> v.items[j]]]
    ELSE IF v.kind = "list"
         THEN << [parent |-> p, child |-> NaN] >>
         ELSE << [parent |-> p, child |-> None] >>

VARIABLES
    stage,                \* the node function that runs
    pc,                   \* "loop", "load", "returned" or "raised"
    todo,                 \* the entities the for loop has still to visit
    api,                  \* what the API answered for the entities visited so far
    tables,               \* the accumulator DataFrames, by variable name
    log,                  \* the logger.error records
    load_to_bq,           \* the node's load_to_bq argument
    google_cloud_config,  \* the keys present in the google_cloud_config argument
    credentials_ok,       \* whether the file at credentials_path is a valid key file
    locals,               \* the values read from google_cloud_config, by key
    credentials,          \* "unset", or "loaded" once the key file is read
    attempts,             \* the to_gbq calls made, in order
    warehouse,            \* the batches BigQuery accepted, in order
    returned,             \* the tuple the node returned
    today_date,           \* datetime.now().date() of the run
    history               \* the runs that ended before this one

vars == <<stage, pc, todo, api, tables, log, load_to_bq, google_cloud_config,
          credentials_ok, locals, credentials, attempts, warehouse, returned,
          today_date, history>>

\* ------------------------------------------------------- the nodes' tables
\* the DataFrames of each node, in the order it loads and returns them, with
\* the google_cloud_config key that names the destination of each
StageTables(s) ==
    CASE s = "extract_users" ->
           << "users_info_df", "users_top_writer_in_df", "user_followers_df",
              "user_followings_df", "users_articles_df" >>
      [] s = "fetch_user_articles_info" ->
           << "articles_info_df", "article_tags_df", "article_topics_df",
              "article_fans_id_df", "article_related_articles_ids_df",
              "articles_comments_info_df", "article_comments_tag_info_df",
              "article_comments_topic_info_df" >>
      [] s = "fetch_publications_info" ->
           << "publication_info_df", "publication_tags_df",
              "publication_editors_df", "publication_articles_df" >>
      [] s = "fetch_top_feeds" -> << "top_feeds_df" >>

TableKeys(s) ==
    CASE s = "extract_users" ->
           << "user_info_table", "users_top_writer_in_table", "user_followers_table",
              "user_followings_table", "users_articles_table" >>
      [] s = "fetch_user_articles_info" ->
           << "articles_info_table", "article_tags_table", "article_topics_table",
              "article_fans_id_table", "article_related_articles_table",
              "articles_comments_info_table", "article_comments_tag_info_table",
              "article_comments_topic_info_table" >>
      [] s = "fetch_publications_info" ->
           << "publication_info_table", "publication_tags_table",
              "publication_editors_table", "publication_articles_table" >>
      [] s = "fetch_top_feeds" -> << "top_feeds_table" >>

Range(s) == {s[j] : j \in 1..Len(s)}

\* pd.DataFrame() for every accumulator of the node
EmptyTables(s) == [t \in Range(StageTables(s)) |-> <<>>]

\* pd.concat([df, rows], ignore_index=True)
concat(t, name, rows) == [t EXCEPT ![name] = @ \o rows]

\* logger.error(...)
error(lg, what, id) == Append(lg, [what |-> what, id |-> id])

\* A Python dict is a function from its keys.  d.pop(k, None): the value of
\* k, or None for a missing key, and the dict without k
popped(d, k) == IF k \in DOMAIN d THEN d[k] ELSE NoneVal
\* d.get(k, None) in the place of the pop: the key stays
KeepKey(d, k) == d
pop(d, k) == [x \in DOMAIN d \ {k} |-> d[x]]
\* d[k] = v
assign(d, k, v) == [x \in DOMAIN d \cup {k} |-> IF x = k THEN v ELSE d[x]]
\* the dict d with the entry k: v when the API gives the attribute (v is
\* not None)
with(d, k, v) == IF v = NoneVal THEN d ELSE assign(d, k, v)

\* ---------------------------------------------------------- extract_users
\* What the API answers for one user: user.info (a dict with 'id' and maybe
\* 'top_writer_in', or an exception) and the three id-list properties.
UserInfos ==
    [kind : {"raise"}, top_writer_in : {NoneVal}] \cup
    [kind : {"dict"}, top_writer_in : {NoneVal} \cup Lists]
UserAnswers ==
    [info : UserInfos, followers_ids : {Raises} \cup Lists,
     following_ids : {Raises} \cup Lists, article_ids : {Raises} \cup Lists]

\* user.info as the API gives it: 'id', and 'top_writer_in' when there is one
RawUserInfo(id, u) == with([id |-> id], "top_writer_in", u.info.top_writer_in)

\* lines 73-88: the info and keywords block
TryUserInfo(st, id, u) ==
    IF u.info.kind = "raise"
    THEN [st EXCEPT !.log = error(@, "user_info", id)]
    ELSE LET raw == RawUserInfo(id, u)
             user_top_writer_in == popped(raw, "top_writer_in")
             user_info == pop(raw, "top_writer_in")
             t1 == IF Truthy(user_top_writer_in)
                   THEN concat(st.tables, "users_top_writer_in_df",
                               Explode(user_info.id, user_top_writer_in))
                   ELSE st.tables
         IN [st EXCEPT !.tables = concat(t1, "users_info_df", <<user_info>>)]

\* lines 90-109: the followers, following and articles blocks
TryUserList(st, id, v, name, what) ==
    IF v.kind = "raise"
    THEN [st EXCEPT !.log = error(@, what, id)]
    ELSE [st EXCEPT !.tables = concat(@, name, Explode(id, v))]

\* UserIteration with one try block around the four sub-extractions: the
\* first one that fails skips the ones after it
OneTryUserIteration(st, id, u) ==
    LET s1 == TryUserInfo(st, id, u)
        s2 == TryUserList(s1, id, u.followers_ids, "user_followers_df", "followers")
        s3 == TryUserList(s2, id, u.following_ids, "user_followings_df", "following")
    IN IF u.info.kind = "raise" THEN s1
       ELSE IF u.followers_ids.kind = "raise" THEN s2
       ELSE IF u.following_ids.kind = "raise" THEN s3
       ELSE TryUserList(s3, id, u.article_ids, "users_articles_df", "articles")

\* lines 72-109: one iteration of the for loop
UserIteration(st, id, u) ==
    LET s1 == TryUserInfo(st, id, u)
        s2 == TryUserList(s1, id, u.followers_ids, "user_followers_df", "followers")
        s3 == TryUserList(s2, id, u.following_ids, "user_followings_df", "following")
    IN TryUserList(s3, id, u.article_ids, "users_articles_df", "articles")

ExtractUsersStep(answers) ==
    /\ stage = "extract_users"
    /\ pc = "loop"
    /\ todo # <<>>
    /\ \E u \in answers :
         LET st == UserIteration([tables |-> tables, log |-> log], Head(todo), u)
         IN /\ tables' = st.tables
            /\ log' = st.log
            /\ api' = Append(api, [id |-> Head(todo), answer |-> u])
    /\ todo' = Tail(todo)
    /\ UNCHANGED <<today_date, history, stage, pc, load_to_bq, google_cloud_config, credentials_ok,
                   locals, credentials, attempts, warehouse, returned>>

\* ----------------------------------------------- fetch_user_articles_info
\* identifiers of the responses (comments) of one article, in thread order
CommentIds == <<"c1", "c2">>

\* What the API answers for one response: comment.info (a dict with 'id' and
\* maybe 'tags' and 'topics'), or an exception.
\* article_id is the 'article_id' the raw dict carries, None when it has none.
CommentAnswers ==
    [kind : {"raise"}, tags : {NoneVal}, topics : {NoneVal}, article_id : {None}] \cup
    [kind : {"dict"}, tags : {NoneVal} \cup Lists, topics : {NoneVal} \cup Lists,
     article_id : {None}]
\* article.responses: an exception, or a thread of comments from ids
Threads(ids, answers) ==
    {Raises} \cup {ListOf(s) : s \in UNION {[1..n -> answers] : n \in 0..Len(ids)}}
CommentThreads == Threads(<<"c1">>, CommentAnswers)

\* What the API answers for one article: an exception from article(), .info,
\* .fans_ids, .related_articles_ids, .is_self_published, .content or .markdown,
\* or the info dict with the lists, and then the responses.
ArticleAnswers ==
    [fetch : {"raise"}, tags : {NoneVal}, topics : {NoneVal}, fans_ids : {NoneVal},
     related_articles_ids : {NoneVal}, responses : {Raises}] \cup
    [fetch : {"ok"}, tags : {NoneVal} \cup Lists, topics : {NoneVal} \cup Lists,
     fans_ids : Lists, related_articles_ids : Lists, responses : CommentThreads]

\* the if blocks of lines 234-252, 266-274, 431-444: explode a popped
\* attribute into its table when it is truthy
ExplodeIf(t, name, p, v) ==
    IF Truthy(v) THEN concat(t, name, Explode(p, v)) ELSE t

\* comment.info as the API gives it
RawCommentInfo(j, c) ==
    LET d == with(with([id |-> CommentIds[j]], "tags", c.tags), "topics", c.topics)
    IN IF c.article_id = None THEN d ELSE assign(d, "article_id", c.article_id)

\* the injection keeping an 'article_id' the raw dict already carries
\* (dict.setdefault)
KeepArticleId(comment_info, article_id) ==
    IF "article_id" \in DOMAIN comment_info THEN comment_info
    ELSE assign(comment_info, "article_id", article_id)

\* line 259: comment_info['article_id'] = row['article_id']
InjectArticleId(comment_info, article_id) == assign(comment_info, "article_id", article_id)

\* the loop with a try block around each response: one that raises is skipped
RECURSIVE CaughtCommentLoop(_, _, _, _)
CaughtCommentLoop(st, article_id, cs, j) ==
    IF j > Len(cs) THEN st
    ELSE IF cs[j].kind = "raise"
    THEN CaughtCommentLoop([st EXCEPT !.log = error(@, "comment", CommentIds[j])],
                           article_id, cs, j + 1)
    ELSE LET comment_info ==
                 pop(pop(InjectArticleId(RawCommentInfo(j, cs[j]), article_id),
                         "tags"), "topics")
             t1 == concat(st.tables, "articles_comments_info_df", <<comment_info>>)
             t2 == ExplodeIf(t1, "article_comments_tag_info_df",
                             comment_info.id, cs[j].tags)
             t3 == ExplodeIf(t2, "article_comments_topic_info_df",
                             comment_info.id, cs[j].topics)
         IN CaughtCommentLoop([st EXCEPT !.tables = t3], article_id, cs, j + 1)

\* lines 257-274: the loop over the responses of one article; nothing catches
RECURSIVE CommentLoop(_, _, _, _)
CommentLoop(st, article_id, cs, j) ==
    IF j > Len(cs) THEN st
    ELSE IF cs[j].kind = "raise" THEN [st EXCEPT !.raised = TRUE]
    ELSE LET raw == RawCommentInfo(j, cs[j])
             injected == InjectArticleId(raw, article_id)
             comment_tag == popped(injected, "tags")
             comment_topic == popped(injected, "topics")
             comment_info == pop(pop(injected, "tags"), "topics")
             t1 == concat(st.tables, "articles_comments_info_df", <<comment_info>>)
             t2 == ExplodeIf(t1, "article_comments_tag_info_df",
                             comment_info.id, comment_tag)
             t3 == ExplodeIf(t2, "article_comments_topic_info_df",
                             comment_info.id, comment_topic)
         IN CommentLoop([st EXCEPT !.tables = t3], article_id, cs, j + 1)

\* article_object.info as the API gives it
RawArticleInfo(id, a) == with(with([id |-> id], "tags", a.tags), "topics", a.topics)

\* lines 221-274: one iteration of the for loop over users_articles_df
ArticleIteration(st, row, a) ==
    IF a.fetch = "raise" THEN [st EXCEPT !.raised = TRUE]
    ELSE LET raw == RawArticleInfo(row.child, a)
             d1 == assign(raw, "fans_ids", a.fans_ids)
             d2 == assign(d1, "related_articles_ids", a.related_articles_ids)
             d3 == assign(d2, "is_self_published", TRUE)
             d4 == assign(d3, "content", "content")
             d5 == assign(d4, "markdown", "markdown")
             article_tags == popped(d5, "tags")
             article_topics == popped(d5, "topics")
             article_fans_id == popped(d5, "fans_ids")
             article_related_articles_ids == popped(d5, "related_articles_ids")
             article_info == pop(pop(pop(pop(d5, "tags"), "topics"), "fans_ids"),
                                 "related_articles_ids")
             t1 == ExplodeIf(st.tables, "article_tags_df", article_info.id, article_tags)
             t2 == ExplodeIf(t1, "article_topics_df", article_info.id, article_topics)
             t3 == ExplodeIf(t2, "article_fans_id_df", article_info.id, article_fans_id)
             t4 == ExplodeIf(t3, "article_related_articles_ids_df", article_info.id,
                             article_related_articles_ids)
             t5 == concat(t4, "articles_info_df", <<article_info>>)
             s5 == [st EXCEPT !.tables = t5]
         IN IF a.responses.kind = "raise" THEN [s5 EXCEPT !.raised = TRUE]
            ELSE CommentLoop(s5, row.child, a.responses.items, 1)

FetchArticleStep(answers) ==
    /\ stage = "fetch_user_articles_info"
    /\ pc = "loop"
    /\ todo # <<>>
    /\ \E a \in answers :
         LET st == ArticleIteration([tables |-> tables, log |-> log, raised |-> FALSE],
                                    Head(todo), a)
         IN /\ tables' = st.tables
            /\ log' = st.log
            /\ pc' = IF st.raised THEN "raised" ELSE "loop"
            /\ api' = Append(api, [id |-> Head(todo).child, answer |-> a])
    /\ todo' = Tail(todo)
    /\ UNCHANGED <<today_date, history, stage, load_to_bq, google_cloud_config, credentials_ok,
                   locals, credentials, attempts, warehouse, returned>>

\* ------------------------------------------------ fetch_publications_info
\* Text is a sequence of characters; a tag is named by a string, Chars gives
\* its characters.
Alphabet == {"a", "b", "A", " "}
TagPool == {"a", "ab", "Ab", "bab"}
Chars(tag) ==
    CASE tag = "a" -> <<"a">>
      [] tag = "ab" -> <<"a", "b">>
      [] tag = "Ab" -> <<"A", "b">>
      [] tag = "bab" -> <<"b", "a", "b">>

\* str.lower()
LowerChar(c) == IF c = "A" THEN "a" ELSE IF c = "B" THEN "b" ELSE c
lower(s) == [j \in 1..Len(s) |-> LowerChar(s[j])]

\* \w of the regular expression
IsWordChar(c) == c \in {"a", "b", "A", "B"}

\* re.findall(r'\b\w+\b', s) from position j, cur the run being read: the
\* maximal runs of word characters, left to right
RECURSIVE findall(_, _, _)
findall(s, j, cur) ==
    LET run == IF cur = <<>> THEN <<>> ELSE <<cur>>
    IN IF j > Len(s) THEN run
       ELSE IF IsWordChar(s[j]) THEN findall(s, j + 1, Append(cur, s[j]))
       ELSE run \o findall(s, j + 1, <<>>)

\* Python's  needle in hay  on strings
Contains(needle, hay) ==
    \E o \in 0..(Len(hay) - Len(needle)) :
        \A j \in 1..Len(needle) : hay[o + j] = needle[j]

\* relevance with the containment the other way round: tag.lower() in word.lower()
TagInWordRelevance(words, tag) ==
    Cardinality({j \in 1..Len(words) : Contains(lower(Chars(tag)), lower(words[j]))})

\* line 425: sum(1 for word in words if word.lower() in tag.lower())
relevance(words, tag) ==
    Cardinality({j \in 1..Len(words) : Contains(lower(words[j]), lower(Chars(tag)))})

\* hashtag_relevance[tag] = n on a Counter, a dict in insertion order
setitem(c, key, n) ==
    IF \E j \in 1..Len(c) : c[j].key = key
    THEN [j \in 1..Len(c) |-> IF c[j].key = key THEN [key |-> key, n |-> n] ELSE c[j]]
    ELSE Append(c, [key |-> key, n |-> n])

\* lines 423-425: the loop that fills the Counter
RECURSIVE hashtag_relevance(_, _, _, _)
hashtag_relevance(words, tags, j, c) ==
    IF j > Len(tags) THEN c
    ELSE hashtag_relevance(words, tags, j + 1,
                           setitem(c, tags[j], relevance(words, tags[j])))

\* most_common keeping the last of the items with the largest count
LastMostCommon(c) ==
    LET j == CHOOSE j \in 1..Len(c) :
                 /\ \A k \in 1..Len(c) : c[k].n <= c[j].n
                 /\ \A k \in (j + 1)..Len(c) : c[k].n < c[j].n
    IN c[j].key

\* Counter.most_common(1)[0][0]: max() over the items, which keeps the first
\* of the items with the largest count
most_common(c) ==
    LET j == CHOOSE j \in 1..Len(c) :
                 /\ \A k \in 1..Len(c) : c[k].n <= c[j].n
                 /\ \A k \in 1..(j - 1) : c[k].n < c[j].n
    IN c[j].key

\* lines 422-426
most_relevant_tag(description, tags) ==
    most_common(hashtag_relevance(findall(lower(description), 1, <<>>), tags, 1, <<>>))

\* What the API answers for one publication: publication.info (a dict with
\* 'id', 'description' and maybe 'tags' and 'editors') and publication.articles.
PublicationAnswersOf(descriptions, taglists, editors, articles) ==
    [info : {"raise"}, description : {<<>>}, tags : {NoneVal}, editors : {NoneVal},
     articles : {Raises}] \cup
    [info : {"ok"}, description : descriptions, tags : taglists, editors : editors,
     articles : articles]
PublicationAnswers ==
    PublicationAnswersOf({<<"a", "b">>},
                         {NoneVal, ListOf(<<>>), ListOf(<<"a", "bab">>)},
                         {NoneVal} \cup Lists, {Raises} \cup Lists)

\* publication.info as the API gives it
RawPublicationInfo(id, p) ==
    with(with([id |-> id, description |-> p.description], "tags", p.tags),
         "editors", p.editors)

\* lines 415-444: one iteration of the for loop; nothing catches
PublicationIteration(st, id, p) ==
    IF \/ p.info = "raise"
       \/ p.articles.kind = "raise"
       \/ ~Truthy(p.tags)   \* for tag in None, or most_common(1)[0] of no item
    THEN [st EXCEPT !.raised = TRUE]
    ELSE LET raw == RawPublicationInfo(id, p)
             publication_tags == popped(raw, "tags")
             publication_editors == popped(raw, "editors")
             d1 == pop(pop(raw, "tags"), "editors")
             publication_info ==
                 assign(d1, "most_relevant_tag",
                        most_relevant_tag(d1.description, publication_tags.items))
             t1 == concat(st.tables, "publication_info_df", <<publication_info>>)
             t2 == ExplodeIf(t1, "publication_tags_df", publication_info.id,
                             publication_tags)
             t3 == ExplodeIf(t2, "publication_editors_df", publication_info.id,
                             publication_editors)
             t4 == ExplodeIf(t3, "publication_articles_df", publication_info.id,
                             p.articles)
         IN [st EXCEPT !.tables = t4]

FetchPublicationStep(answers) ==
    /\ stage = "fetch_publications_info"
    /\ pc = "loop"
    /\ todo # <<>>
    /\ \E p \in answers :
         LET st == PublicationIteration([tables |-> tables, log |-> log, raised |-> FALSE],
                                        Head(todo), p)
         IN /\ tables' = st.tables
            /\ log' = st.log
            /\ pc' = IF st.raised THEN "raised" ELSE "loop"
            /\ api' = Append(api, [id |-> Head(todo), answer |-> p])
    /\ todo' = Tail(todo)
    /\ UNCHANGED <<today_date, history, stage, load_to_bq, google_cloud_config, credentials_ok,
                   locals, credentials, attempts, warehouse, returned>>

\* -------------------------------------------------------- fetch_top_feeds
\* What the API answers for one feed mode: articles.ids, or an exception.
FeedAnswers == {Raises} \cup Lists

\* lines 524-535: one iteration of the for loop; nothing catches
FeedIteration(st, feed, f) ==
    IF f.kind = "raise" THEN [st EXCEPT !.raised = TRUE]
    ELSE LET rows == Explode(feed, f)
             top_feed_df == [j \in 1..Len(rows) |->
                               [parent |-> feed, captured_on_date |-> today_date,
                                child |-> rows[j].child]]
         IN [st EXCEPT !.tables = concat(@, "top_feeds_df", top_feed_df)]

FetchFeedStep(answers) ==
    /\ stage = "fetch_top_feeds"
    /\ pc = "loop"
    /\ todo # <<>>
    /\ \E f \in answers :
         LET st == FeedIteration([tables |-> tables, log |-> log, raised |-> FALSE],
                                 Head(todo), f)
         IN /\ tables' = st.tables
            /\ log' = st.log
            /\ pc' = IF st.raised THEN "raised" ELSE "loop"
            /\ api' = Append(api, [id |-> Head(todo), answer |-> f])
    /\ todo' = Tail(todo)
    /\ UNCHANGED <<today_date, history, stage, load_to_bq, google_cloud_config, credentials_ok,
                   locals, credentials, attempts, warehouse, returned>>

\* ------------------------------------------------------- the load phase
ConfigKeys(s) == {"project", "dataset_id", "credentials_path"} \cup Range(TableKeys(s))

\* google_cloud_config.get(k): the value of a present key (named after the
\* key), None for a missing one
get(k) == IF k \in google_cloud_config THEN k ELSE None

\* service_account.Credentials.from_service_account_file(path) raises for a
\* None path and for a file that is no valid key
from_service_account_file(path) == path # None /\ credentials_ok

\* LoadCredentials without the  if load_to_bq:  around it
SwitchlessLoadCredentials ==
    /\ pc = "loop"
    /\ todo = <<>>
    /\ locals' = [k \in ConfigKeys(stage) |-> get(k)]
    /\ IF from_service_account_file(get("credentials_path"))
       THEN credentials' = "loaded" /\ pc' = "load"
       ELSE credentials' = "unset" /\ pc' = "raised"
    /\ UNCHANGED <<today_date, history, stage, todo, api, tables, log, load_to_bq, google_cloud_config,
                   credentials_ok, attempts, warehouse, returned>>

\* lines 111-121, 278-291, 446-455, 537-543: under  if load_to_bq:  read the
\* configuration with .get and load the credentials; nothing catches
LoadCredentials ==
    /\ pc = "loop"
    /\ todo = <<>>
    /\ load_to_bq
    /\ locals' = [k \in ConfigKeys(stage) |-> get(k)]
    /\ IF from_service_account_file(get("credentials_path"))
       THEN credentials' = "loaded" /\ pc' = "load"
       ELSE credentials' = "unset" /\ pc' = "raised"
    /\ UNCHANGED <<today_date, history, stage, todo, api, tables, log, load_to_bq, google_cloud_config,
                   credentials_ok, attempts, warehouse, returned>>

\* f"{project_id}.{dataset_id}.{table}"
Destination(j) ==
    <<locals["project"], locals["dataset_id"], locals[TableKeys(stage)[j]]>>

\* TryToGbq without the try block: an exception of to_gbq leaves the node
UncaughtToGbq(j, ok) ==
    LET name == StageTables(stage)[j]
    IN /\ attempts' = Append(attempts, [table |-> name, dest |-> Destination(j),
                                        ok |-> ok])
       /\ warehouse' = IF ok THEN Append(warehouse, [dest |-> Destination(j),
                                                     rows |-> tables[name]])
                       ELSE warehouse
       /\ log' = log
       /\ pc' = IF ok THEN "load" ELSE "raised"

\* TryToGbq with if_exists="replace": the batch takes the place of what the
\* destination held
ReplaceToGbq(j, ok) ==
    LET name == StageTables(stage)[j]
        Other(batch) == batch.dest # Destination(j)
    IN /\ attempts' = Append(attempts, [table |-> name, dest |-> Destination(j),
                                        ok |-> ok])
       /\ IF ok
          THEN /\ warehouse' = Append(SelectSeq(warehouse, Other),
                                      [dest |-> Destination(j), rows |-> tables[name]])
               /\ log' = log
          ELSE /\ warehouse' = warehouse
               /\ log' = error(log, "upload", locals[TableKeys(stage)[j]])
       /\ pc' = "load"

\* one  try: to_gbq(df, destination, if_exists="append")  except Exception:
\* logger.error(...)  block, for the j-th table of the node; BigQuery accepts
\* the batch (ok) or to_gbq raises
TryToGbq(j, ok) ==
    LET name == StageTables(stage)[j]
    IN /\ attempts' = Append(attempts, [table |-> name, dest |-> Destination(j),
                                        ok |-> ok])
       /\ IF ok
          THEN /\ warehouse' = Append(warehouse, [dest |-> Destination(j),
                                                  rows |-> tables[name]])
               /\ log' = log
          ELSE /\ warehouse' = warehouse
               /\ log' = error(log, "upload", locals[TableKeys(stage)[j]])
       /\ pc' = "load"

\* lines 123-176, 293-379, 457-499, 545-554: the next try block
LoadTable ==
    /\ pc = "load"
    /\ Len(attempts) < Len(StageTables(stage))
    /\ \E ok \in BOOLEAN : TryToGbq(Len(attempts) + 1, ok)
    /\ UNCHANGED <<today_date, history, stage, todo, api, tables, load_to_bq, google_cloud_config,
                   credentials_ok, locals, credentials, returned>>

\* lines 178, 381, 501, 556: return the accumulators
ReturnValue == [j \in 1..Len(StageTables(stage)) |-> tables[StageTables(stage)[j]]]
Return ==
    /\ \/ pc = "loop" /\ todo = <<>> /\ ~load_to_bq
       \/ pc = "load" /\ Len(attempts) = Len(StageTables(stage))
    /\ pc' = "returned"
    /\ returned' = ReturnValue
    /\ UNCHANGED <<today_date, history, stage, todo, api, tables, log, load_to_bq, google_cloud_config,
                   credentials_ok, locals, credentials, attempts, warehouse>>

\* ------------------------------------------------------------- the inputs
Stages == {"extract_users", "fetch_user_articles_info", "fetch_publications_info",
           "fetch_top_feeds"}

\* the entities a node may be given: top_writers_users, the rows of
\* users_articles_df, the publications the search finds, feed_mode
Entities(s) ==
    CASE s = "extract_users" -> <<"u1", "u2">>
      [] s = "fetch_user_articles_info" ->
           << [parent |-> "u1", child |-> "a1"], [parent |-> "u1", child |-> "a2"] >>
      [] s = "fetch_publications_info" -> <<"p1", "p2">>
      [] s = "fetch_top_feeds" -> <<"hot", "new">>
Inputs(s) == {SubSeq(Entities(s), 1, n) : n \in 0..Len(Entities(s))}

\* a configuration with every key, or with one key missing
Configs(s) == {ConfigKeys(s)} \cup {ConfigKeys(s) \ {k} : k \in ConfigKeys(s)}

\* the state when the node function is entered (lines 66-70, 206-213,
\* 406-411, 520-521)
InitRun(s) ==
    /\ stage = s
    /\ pc = "loop"
    /\ todo \in Inputs(s)
    /\ api = <<>>
    /\ tables = EmptyTables(s)
    /\ log = <<>>
    /\ locals = [k \in {} |-> None]
    /\ credentials = "unset"
    /\ attempts = <<>>
    /\ warehouse = <<>>
    /\ returned = <<>>
    /\ today_date = "today"
    /\ history = <<>>

\* --- SpecExtract: the accumulation loops, over every answer of the API,
\* with loading switched off
InitExtract ==
    \E s \in Stages :
        /\ InitRun(s)
        /\ load_to_bq = FALSE
        /\ google_cloud_config = ConfigKeys(s)
        /\ credentials_ok = TRUE
NextExtract ==
    \/ ExtractUsersStep(UserAnswers)
    \/ FetchArticleStep(ArticleAnswers)
    \/ FetchPublicationStep(PublicationAnswers)
    \/ FetchFeedStep(FeedAnswers)
    \/ Return
SpecExtract == InitExtract /\ [][NextExtract]_vars

\* --- SpecLoad: the load phase, over every switch, configuration, key file
\* and outcome of to_gbq, with entities that are all alike
PlainUsers ==
    {[info |-> [kind |-> "raise", top_writer_in |-> NoneVal], followers_ids |-> Raises,
      following_ids |-> Raises, article_ids |-> Raises]} \cup
    {[info |-> [kind |-> "dict", top_writer_in |-> l], followers_ids |-> l,
      following_ids |-> l, article_ids |-> l] : l \in Lists}
PlainArticles ==
    {a \in ArticleAnswers : a.fetch = "raise"} \cup
    UNION {{[fetch |-> "ok", tags |-> l, topics |-> l, fans_ids |-> l,
             related_articles_ids |-> l, responses |-> r] :
               r \in {Raises,
                      ListOf(<<[kind |-> "raise", tags |-> NoneVal,
                                topics |-> NoneVal, article_id |-> None]>>),
                      ListOf(<<[kind |-> "dict", tags |-> l, topics |-> l,
                                article_id |-> None]>>)}} : l \in Lists}
PlainPublications ==
    PublicationAnswersOf({<<"a", "b">>}, {ListOf(<<"a", "bab">>)}, Lists, Lists)
InitLoad ==
    \E s \in Stages :
        /\ InitRun(s)
        /\ load_to_bq \in BOOLEAN
        /\ google_cloud_config \in Configs(s)
        /\ credentials_ok \in BOOLEAN
NextLoad ==
    \/ ExtractUsersStep(PlainUsers)
    \/ FetchArticleStep(PlainArticles)
    \/ FetchPublicationStep(PlainPublications)
    \/ FetchFeedStep(FeedAnswers)
    \/ LoadCredentials
    \/ LoadTable
    \/ Return
SpecLoad == InitLoad /\ [][NextLoad]_vars

\* --- SpecRecords: the records of users, articles, comments and publications,
\* over raw dicts with and without each popped key, comments with and without
\* an 'article_id' of their own, threads of up to two comments
RecordComments ==
    [kind : {"raise"}, tags : {NoneVal}, topics : {NoneVal}, article_id : {None}] \cup
    [kind : {"dict"}, tags : {NoneVal, ListOf(IdList(MaxLen))}, topics : {NoneVal},
     article_id : {None, "a0"}]
RecordArticles ==
    {a \in ArticleAnswers : a.fetch = "raise"} \cup
    [fetch : {"ok"}, tags : {NoneVal} \cup Lists, topics : {NoneVal},
     fans_ids : {ListOf(IdList(MaxLen))}, related_articles_ids : {ListOf(IdList(0))},
     responses : Threads(CommentIds, RecordComments)]
InitRecords ==
    \E s \in Stages \ {"fetch_top_feeds"} :
        /\ InitRun(s)
        /\ load_to_bq = FALSE
        /\ google_cloud_config = ConfigKeys(s)
        /\ credentials_ok = TRUE
NextRecords ==
    \/ ExtractUsersStep(PlainUsers)
    \/ FetchArticleStep(RecordArticles)
    \/ FetchPublicationStep(PublicationAnswers)
    \/ Return
SpecRecords == InitRecords /\ [][NextRecords]_vars

\* --- SpecPipeline: extract_users, then fetch_user_articles_info on the
\* users_articles_df it returned, as create_pipeline wires them
\* what is kept of a run that ended
Run ==
    [stage |-> stage, api |-> api, tables |-> tables, today_date |-> today_date,
     attempts |-> attempts]

\* pipeline.py lines 28-46: the output users_articles_df of extract_users_node
\* is the input of the node of fetch_user_articles_info, which iterates over
\* its rows (line 217)
RunArticlesNode ==
    /\ stage = "extract_users"
    /\ pc = "returned"
    /\ history = <<>>
    /\ history' = Append(history, Run)
    /\ stage' = "fetch_user_articles_info"
    /\ pc' = "loop"
    /\ todo' = returned[5]
    /\ api' = <<>>
    /\ tables' = EmptyTables("fetch_user_articles_info")
    /\ returned' = <<>>
    /\ UNCHANGED <<today_date, log, load_to_bq, google_cloud_config, credentials_ok,
                   locals, credentials, attempts, warehouse>>
InitPipeline ==
    /\ InitRun("extract_users")
    /\ load_to_bq = FALSE
    /\ google_cloud_config = ConfigKeys("extract_users")
    /\ credentials_ok = TRUE
NextPipeline ==
    \/ ExtractUsersStep(PlainUsers)
    \/ RunArticlesNode
    \/ FetchArticleStep(PlainArticles)
    \/ Return
SpecPipeline == InitPipeline /\ [][NextPipeline]_vars

\* --- SpecTwice: a node given one entity, with loading on, a full
\* configuration and a valid key file, called a second time with the same
\* arguments against the same API data, on the same day or on a later one
Dates == {"today", "tomorrow"}

\* the API answers the next request as it did in the first run
Again(answers) ==
    IF history = <<>> THEN answers
    ELSE IF Len(api) < Len(history[1].api)
         THEN {history[1].api[Len(api) + 1].answer}
         ELSE {}

\* the node function is entered again (lines 66-70, 206-213, 406-411,
\* 520-521): new accumulators, the entities of the first call, the date of
\* the day; the warehouse is as the first run left it
Rerun ==
    /\ pc = "returned"
    /\ history = <<>>
    /\ history' = Append(history, Run)
    /\ pc' = "loop"
    /\ todo' = SubSeq(Entities(stage), 1, Len(api))
    /\ api' = <<>>
    /\ tables' = EmptyTables(stage)
    /\ locals' = [k \in {} |-> None]
    /\ credentials' = "unset"
    /\ attempts' = <<>>
    /\ returned' = <<>>
    /\ today_date' \in Dates
    /\ UNCHANGED <<stage, log, load_to_bq, google_cloud_config, credentials_ok,
                   warehouse>>
InitTwice ==
    \E s \in Stages :
        /\ InitRun(s)
        /\ Len(todo) = 1
        /\ load_to_bq = TRUE
        /\ google_cloud_config = ConfigKeys(s)
        /\ credentials_ok = TRUE
NextTwice ==
    \/ ExtractUsersStep(Again(PlainUsers))
    \/ FetchArticleStep(Again(PlainArticles))
    \/ FetchPublicationStep(Again(PlainPublications))
    \/ FetchFeedStep(Again(FeedAnswers))
    \/ LoadCredentials
    \/ LoadTable
    \/ Return
    \/ Rerun
SpecTwice == InitTwice /\ [][NextTwice]_vars

\* --- SpecScore: fetch_publications_info on one publication, over every
\* description of up to MaxDescLen characters and every list of 1..MaxTags tags
Texts(n) == UNION {[1..k -> Alphabet] : k \in 0..n}
TagLists(n) == {ListOf(t) : t \in UNION {[1..k -> TagPool] : k \in 1..n}}
ScorePublications ==
    [info : {"ok"}, description : Texts(MaxDescLen), tags : TagLists(MaxTags),
     editors : {NoneVal}, articles : {ListOf(<<>>)}]
InitScore ==
    /\ InitRun("fetch_publications_info")
    /\ todo = <<"p1">>
    /\ load_to_bq = FALSE
    /\ google_cloud_config = ConfigKeys("fetch_publications_info")
    /\ credentials_ok = TRUE
NextScore ==
    \/ FetchPublicationStep(ScorePublications)
    \/ Return
SpecScore == InitScore /\ [][NextScore]_vars

\* =================================================================== claims
RECURSIVE Flatten(_)
Flatten(ss) == IF Len(ss) = 0 THEN <<>> ELSE Head(ss) \o Flatten(Tail(ss))

\* the ids of the entities visited so far, then those still to visit
Visited == [i \in 1..Len(api) |-> api[i].id]

\* ----------------------------------------------------------------- C1
\* what the sub-extractions of one user that did not fail put in a table
UserRows(name, e) ==
    LET u == e.answer
    IN CASE name = "users_info_df" ->
              IF u.info.kind = "raise" THEN <<>> ELSE << [id |-> e.id] >>
         [] name = "users_top_writer_in_df" ->
              IF u.info.kind = "raise" \/ ~Truthy(u.info.top_writer_in) THEN <<>>
              ELSE Explode(e.id, u.info.top_writer_in)
         [] name = "user_followers_df" ->
              IF u.followers_ids.kind = "raise" THEN <<>>
              ELSE Explode(e.id, u.followers_ids)
         [] name = "user_followings_df" ->
              IF u.following_ids.kind = "raise" THEN <<>>
              ELSE Explode(e.id, u.following_ids)
         [] name = "users_articles_df" ->
              IF u.article_ids.kind = "raise" THEN <<>>
              ELSE Explode(e.id, u.article_ids)

\* C1: in extract_users, whatever sub-extractions fail for whatever users,
\* every table holds, user after user in input order, the rows of exactly the
\* sub-extractions that did not fail; the node never raises in its loop, and
\* when it returns it has visited every user it was given.
C1_SubExtractionsIsolated ==
    stage = "extract_users" =>
        /\ pc # "raised"
        /\ \A name \in DOMAIN tables :
               tables[name] = Flatten([i \in 1..Len(api) |-> UserRows(name, api[i])])
        /\ Visited \o todo \in Inputs(stage)
        /\ pc = "returned" => todo = <<>>

\* the followers of the first user fail after its info row was appended, its
\* articles do not, and the second user is extracted in full
C1_Witness ==
    /\ stage = "extract_users"
    /\ pc = "returned"
    /\ Len(api) = 2
    /\ api[1].answer.info.kind = "dict"
    /\ api[1].answer.followers_ids.kind = "raise"
    /\ Truthy(api[1].answer.article_ids)
    /\ Truthy(api[2].answer.followers_ids)
    /\ Len(tables["users_info_df"]) = 2
    /\ Len(tables["user_followers_df"]) = MaxLen
    /\ Len(log) = 1

\* ----------------------------------------------------------------- C2
\* C2: in fetch_user_articles_info a failure while fetching one article is
\* absorbed: the loop goes on with the articles after it.
C2_ArticleFailureAbsorbed ==
    (/\ stage = "fetch_user_articles_info"
     /\ Len(api) > 0
     /\ api[Len(api)].answer.fetch = "raise")
    => pc = "loop"

\* ----------------------------------------------------------------- C3
\* C3: in fetch_publications_info a failure while processing one publication
\* (its info or articles cannot be fetched, or its tag list is empty or
\* absent) is absorbed: the loop goes on with the publications after it.
C3_PublicationFailureAbsorbed ==
    (/\ stage = "fetch_publications_info"
     /\ Len(api) > 0
     /\ LET p == api[Len(api)].answer
        IN p.info = "raise" \/ p.articles.kind = "raise" \/ ~Truthy(p.tags))
    => pc = "loop"

\* ----------------------------------------------------------------- C4
\* the tables that pair a parent id with one element of a multi-valued attribute
RelationTables(s) ==
    Range(StageTables(s)) \ {"users_info_df", "articles_info_df",
                             "articles_comments_info_df", "publication_info_df"}

\* C4: no relation table ever holds a row whose child value is null.
C4_NoNullChild ==
    \A name \in RelationTables(stage) :
        \A j \in 1..Len(tables[name]) : tables[name][j].child \notin {NaN, None}

\* ----------------------------------------------------------------- C5
\* The (parent, attribute value) pairs of one visited entity that reach the
\* explode of a table: the entity itself, or its responses up to the first
\* one that raises.
RECURSIVE CommentParents(_, _, _)
CommentParents(cs, j, tags) ==
    IF j > Len(cs) \/ cs[j].kind = "raise" THEN <<>>
    ELSE << [parent |-> CommentIds[j],
             value |-> IF tags THEN cs[j].tags ELSE cs[j].topics] >>
         \o CommentParents(cs, j + 1, tags)
Parents(name, e) ==
    LET a == e.answer
        one(v) == << [parent |-> e.id, value |-> v] >>
        thread(tags) == IF a.fetch = "ok" /\ a.responses.kind = "list"
                        THEN CommentParents(a.responses.items, 1, tags) ELSE <<>>
        pub(v) == IF a.info = "ok" /\ a.articles.kind = "list" /\ Truthy(a.tags)
                  THEN one(v) ELSE <<>>
    IN CASE name = "users_top_writer_in_df" ->
              IF a.info.kind = "dict" THEN one(a.info.top_writer_in) ELSE <<>>
         [] name = "user_followers_df" -> one(a.followers_ids)
         [] name = "user_followings_df" -> one(a.following_ids)
         [] name = "users_articles_df" -> one(a.article_ids)
         [] name = "article_tags_df" -> one(a.tags)
         [] name = "article_topics_df" -> one(a.topics)
         [] name = "article_fans_id_df" -> one(a.fans_ids)
         [] name = "article_related_articles_ids_df" -> one(a.related_articles_ids)
         [] name = "article_comments_tag_info_df" -> thread(TRUE)
         [] name = "article_comments_topic_info_df" -> thread(FALSE)
         [] name = "publication_tags_df" -> pub(a.tags)
         [] name = "publication_editors_df" -> pub(a.editors)
         [] name = "publication_articles_df" -> pub(a.articles)
         [] name = "top_feeds_df" -> one(a)

\* the k rows of a non-empty sequence of length k, in the order of the sequence
Pairs(p) ==
    IF p.value.kind = "list"
    THEN [j \in 1..Len(p.value.items) |-> [parent |-> p.parent, child |-> p.value.items[j]]]
    ELSE <<>>
PairsOf(name, e) ==
    Flatten([q \in 1..Len(Parents(name, e)) |-> Pairs(Parents(name, e)[q])])

\* the (parent, child) columns of the rows of a table whose child is not null
IsValue(row) == row.child \notin {NaN, None}
Columns(rows) == [j \in 1..Len(rows) |-> [parent |-> rows[j].parent, child |-> rows[j].child]]
ValueRows(name) == Columns(SelectSeq(tables[name], IsValue))

\* C5: the non-null rows of every relation table are, entity after entity in
\* the order visited, the k rows of each non-empty attribute of length k: the
\* parent id paired with the 1st, 2nd, ... k-th element, contiguous and in
\* source order.
C5_RowsInSourceOrder ==
    \A name \in RelationTables(stage) :
        ValueRows(name) = Flatten([i \in 1..Len(api) |-> PairsOf(name, api[i])])

\* two users with non-empty follower lists, two articles with tags and a
\* response with tags, two publications with editors, or two feeds with ids
C5_Witness ==
    /\ pc = "returned"
    /\ Len(api) = 2
    /\ stage = "fetch_user_articles_info"
    /\ Len(tables["article_tags_df"]) = 2 * MaxLen
    /\ Len(tables["article_comments_tag_info_df"]) = 2 * MaxLen
    /\ Len(tables["article_fans_id_df"]) = MaxLen
    /\ tables["article_tags_df"][1] = [parent |-> "a1", child |-> ElemIds[MaxLen]]
    /\ tables["article_tags_df"][MaxLen + 1] = [parent |-> "a2", child |-> ElemIds[MaxLen]]

\* ----------------------------------------------------------------- C6
IsUploadError(l) == l.what = "upload"
Failed(a) == ~a.ok

\* C6: once the credentials are loaded, the to_gbq calls of a node are those
\* of its tables in their fixed order, each at most once and, when the node
\* returns, each exactly once whatever calls failed; they come after the
\* loop, every failed call is logged and none leaves the node.
C6_EveryTableAttemptedOnce ==
    /\ Len(attempts) <= Len(StageTables(stage))
    /\ \A j \in 1..Len(attempts) : attempts[j].table = StageTables(stage)[j]
    /\ attempts # <<>> => todo = <<>> /\ load_to_bq /\ credentials = "loaded"
    /\ credentials = "loaded" => pc \in {"load", "returned"}
    /\ pc = "returned" /\ load_to_bq => Len(attempts) = Len(StageTables(stage))
    /\ Len(SelectSeq(log, IsUploadError)) = Len(SelectSeq(attempts, Failed))
    /\ Len(warehouse) = Len(attempts) - Len(SelectSeq(attempts, Failed))

\* fetch_user_articles_info returned after its first and last appends
\* failed and the ones between were accepted
C6_Witness ==
    /\ stage = "fetch_user_articles_info"
    /\ pc = "returned"
    /\ Len(api) = 2
    /\ Len(attempts) = 8
    /\ ~attempts[1].ok
    /\ attempts[2].ok
    /\ ~attempts[8].ok
    /\ Len(warehouse) = 6

\* ----------------------------------------------------------------- C7
\* the word tokens of a text: the maximal runs of word characters, as
\* (first, last) positions
Tokens(s) ==
    {t \in (1..Len(s)) \X (1..Len(s)) :
        /\ t[1] <= t[2]
        /\ \A k \in t[1]..t[2] : IsWordChar(s[k])
        /\ t[1] = 1 \/ ~IsWordChar(s[t[1] - 1])
        /\ t[2] = Len(s) \/ ~IsWordChar(s[t[2] + 1])}
\* the number of tokens of the lower-cased description that contain the
\* lower-cased tag
TagInsideTokens(description, tag) ==
    LET d == lower(description)
    IN Cardinality({t \in Tokens(d) : Contains(lower(Chars(tag)), SubSeq(d, t[1], t[2]))})
\* the number of tokens of the lower-cased description that the lower-cased
\* tag contains
TokensInsideTag(description, tag) ==
    LET d == lower(description)
    IN Cardinality({t \in Tokens(d) : Contains(SubSeq(d, t[1], t[2]), lower(Chars(tag)))})

\* the publications whose row reached publication_info_df
PublicationOk(e) ==
    e.answer.info = "ok" /\ e.answer.articles.kind = "list" /\ Truthy(e.answer.tags)
Scored == SelectSeq(api, PublicationOk)

\* C7 as stated: most_relevant_tag is a tag with the most description tokens
\* that contain the tag.
C7_TagInsideToken ==
    stage = "fetch_publications_info" =>
        /\ Len(tables["publication_info_df"]) = Len(Scored)
        /\ \A i \in 1..Len(Scored) :
               LET p == Scored[i].answer
                   best == tables["publication_info_df"][i].most_relevant_tag
               IN /\ best \in Range(p.tags.items)
                  /\ \A t \in Range(p.tags.items) :
                         TagInsideTokens(p.description, t)
                             <= TagInsideTokens(p.description, best)

\* C7 amended: most_relevant_tag is a tag with the most description tokens
\* that are contained in the tag.
C7_TokenInsideTag ==
    stage = "fetch_publications_info" =>
        /\ Len(tables["publication_info_df"]) = Len(Scored)
        /\ \A i \in 1..Len(Scored) :
               LET p == Scored[i].answer
                   best == tables["publication_info_df"][i].most_relevant_tag
               IN /\ best \in Range(p.tags.items)
                  /\ \A t \in Range(p.tags.items) :
                         TokensInsideTag(p.description, t)
                             <= TokensInsideTag(p.description, best)

\* a tag that is not the first one wins with more tokens inside it, while
\* the first one is inside more tokens
C7_Witness ==
    /\ stage = "fetch_publications_info"
    /\ pc = "returned"
    /\ Len(Scored) = 1
    /\ LET p == Scored[1].answer
           best == returned[1][1].most_relevant_tag
       IN /\ best # p.tags.items[1]
          /\ TokensInsideTag(p.description, best)
                 > TokensInsideTag(p.description, p.tags.items[1])
          /\ TagInsideTokens(p.description, best)
                 < TagInsideTokens(p.description, p.tags.items[1])

\* ----------------------------------------------------------------- C8
\* C8: most_relevant_tag is the first tag of the input sequence among those
\* with the largest count (also with a repeated tag); for a description
\* without tokens it is the first tag.
C8_FirstOfTheBest ==
    stage = "fetch_publications_info" =>
        \A i \in 1..Len(tables["publication_info_df"]) :
            LET p == Scored[i].answer
                tags == p.tags.items
                n(j) == TokensInsideTag(p.description, tags[j])
                best == tables["publication_info_df"][i].most_relevant_tag
            IN /\ \E j \in 1..Len(tags) :
                      /\ best = tags[j]
                      /\ \A k \in 1..Len(tags) : n(k) <= n(j)
                      /\ \A k \in 1..(j - 1) : n(k) < n(j)
               /\ Tokens(p.description) = {} => best = tags[1]

\* two different tags share a largest count that is not zero, and the
\* first one is returned
C8_Witness ==
    /\ stage = "fetch_publications_info"
    /\ pc = "returned"
    /\ Len(Scored) = 1
    /\ LET p == Scored[1].answer
           tags == p.tags.items
       IN /\ Len(tags) = 2
          /\ tags[1] # tags[2]
          /\ TokensInsideTag(p.description, tags[1]) > 0
          /\ TokensInsideTag(p.description, tags[1])
                 = TokensInsideTag(p.description, tags[2])
          /\ returned[1][1].most_relevant_tag = tags[1]

\* ----------------------------------------------------------------- C9
\* C9: with loading enabled, once the configuration has been read, a missing
\* key or an invalid key file has made the node raise.
C9_MissingKeyFatal ==
    (/\ load_to_bq
     /\ DOMAIN locals # {}
     /\ google_cloud_config # ConfigKeys(stage) \/ ~credentials_ok)
    => pc = "raised"

\* ---------------------------------------------------------------- C10
\* the accumulators after the loop has visited the entities es, whatever
\* the switch
Iteration(s, st, e) ==
    CASE s = "extract_users" -> UserIteration(st, e.id, e.answer)
      [] s = "fetch_user_articles_info" ->
           ArticleIteration(st, [child |-> e.id], e.answer)
      [] s = "fetch_publications_info" -> PublicationIteration(st, e.id, e.answer)
      [] s = "fetch_top_feeds" -> FeedIteration(st, e.id, e.answer)
RECURSIVE Replay(_, _, _)
Replay(s, es, st) ==
    IF Len(es) = 0 THEN st ELSE Replay(s, Tail(es), Iteration(s, st, Head(es)))
Accumulated ==
    Replay(stage, api, [tables |-> EmptyTables(stage), log |-> <<>>, raised |-> FALSE]).tables

\* C10: with the switch false nothing is read from the configuration, no key
\* file is loaded and no append is attempted; and with either value of the
\* switch a node that returns returns the tables its loop accumulated from
\* the API's answers.
C10_SwitchOnlyGatesLoading ==
    /\ ~load_to_bq =>
           /\ DOMAIN locals = {}
           /\ credentials = "unset"
           /\ attempts = <<>>
           /\ warehouse = <<>>
    /\ pc = "returned" =>
           returned = [j \in 1..Len(StageTables(stage)) |->
                          Accumulated[StageTables(stage)[j]]]

\* extract_users returned two users' rows with the switch false
C10_Witness ==
    /\ stage = "extract_users"
    /\ ~load_to_bq
    /\ pc = "returned"
    /\ Len(api) = 2
    /\ Len(returned[1]) = 2
    /\ Len(returned[5]) = MaxLen + 1

\* ---------------------------------------------------------------- C11
\* the comments of a thread that were processed: those before the first one
\* that raises
RECURSIVE Processed(_, _)
Processed(cs, j) ==
    IF j > Len(cs) \/ cs[j].kind = "raise" THEN <<>>
    ELSE << [j |-> j, answer |-> cs[j]] >> \o Processed(cs, j + 1)
Thread(e) ==
    IF e.answer.fetch = "ok" /\ e.answer.responses.kind = "list"
    THEN Processed(e.answer.responses.items, 1) ELSE <<>>
UserOk(e) == e.answer.info.kind = "dict"
ArticleOk(e) == e.answer.fetch = "ok"

\* the records the API gave for the rows of the info table `name`, in order
RawRecords(name) ==
    CASE name = "users_info_df" ->
           LET es == SelectSeq(api, UserOk)
           IN [i \in 1..Len(es) |-> RawUserInfo(es[i].id, es[i].answer)]
      [] name = "articles_info_df" ->
           LET es == SelectSeq(api, ArticleOk)
           IN [i \in 1..Len(es) |-> RawArticleInfo(es[i].id, es[i].answer)]
      [] name = "articles_comments_info_df" ->
           LET cs == Flatten([i \in 1..Len(api) |-> Thread(api[i])])
           IN [i \in 1..Len(cs) |-> RawCommentInfo(cs[i].j, cs[i].answer)]
      [] name = "publication_info_df" ->
           LET es == SelectSeq(api, PublicationOk)
           IN [i \in 1..Len(es) |-> RawPublicationInfo(es[i].id, es[i].answer)]
InfoTables == {"users_info_df", "articles_info_df", "articles_comments_info_df",
               "publication_info_df"} \cap DOMAIN tables
PoppedKeys == {"top_writer_in", "tags", "topics", "fans_ids", "related_articles_ids",
               "editors"}
\* the keys the node itself sets on the records of an info table
SetKeys(name) ==
    CASE name = "users_info_df" -> {}
      [] name = "articles_info_df" -> {"is_self_published", "content", "markdown"}
      [] name = "articles_comments_info_df" -> {"article_id"}
      [] name = "publication_info_df" -> {"most_relevant_tag"}
\* row is raw without the popped keys and with the keys of set, every other
\* value as in raw
NormalizedWith(raw, row, set) ==
    /\ DOMAIN row = (DOMAIN raw \ PoppedKeys) \cup set
    /\ \A k \in DOMAIN row \ set : row[k] = raw[k]

\* C11 as stated: every row of an info table is the record the API gave
\* without the popped multi-valued keys; no key is added and no value changed
C11_OnlyPoppedKeysRemoved ==
    \A name \in InfoTables :
        /\ Len(tables[name]) = Len(RawRecords(name))
        /\ \A i \in 1..Len(tables[name]) :
               NormalizedWith(RawRecords(name)[i], tables[name][i], {})

\* C11 amended: every row of an info table is the record the API gave without
\* the popped multi-valued keys and with the keys the node sets
\* (is_self_published, content, markdown on an article; article_id on a
\* comment; most_relevant_tag on a publication); no other key is added and no
\* other value changed
C11_PoppedAndSetKeys ==
    \A name \in InfoTables :
        /\ Len(tables[name]) = Len(RawRecords(name))
        /\ \A i \in 1..Len(tables[name]) :
               NormalizedWith(RawRecords(name)[i], tables[name][i], SetKeys(name))

\* two articles with tags, the second with a comment that has tags and an
\* article_id of its own, all normalized
C11_Witness ==
    /\ stage = "fetch_user_articles_info"
    /\ pc = "returned"
    /\ Len(tables["articles_info_df"]) = 2
    /\ "tags" \in DOMAIN RawRecords("articles_info_df")[2]
    /\ Len(tables["articles_comments_info_df"]) > 0
    /\ \E i \in 1..Len(tables["articles_comments_info_df"]) :
          {"tags", "article_id"} \subseteq DOMAIN RawRecords("articles_comments_info_df")[i]

\* ---------------------------------------------------------------- C13
\* the answer made the comment processing raise: the responses could not be
\* fetched, or one of the comments raised
CommentRaises(e) ==
    /\ e.answer.fetch = "ok"
    /\ \/ e.answer.responses.kind = "raise"
       \/ \E j \in 1..Len(e.answer.responses.items) :
            e.answer.responses.items[j].kind = "raise"
FeedRaises(e) == e.answer.kind = "raise"

\* C13: an error of the comment processing of an article, or of the fetch of
\* a feed mode, ends the node: it returns nothing and attempts no append,
\* whatever was accumulated before
C13_UncaughtErrorAbortsStage ==
    (\/ /\ stage = "fetch_user_articles_info"
        /\ \E i \in 1..Len(api) : CommentRaises(api[i])
     \/ /\ stage = "fetch_top_feeds"
        /\ \E i \in 1..Len(api) : FeedRaises(api[i]))
    => /\ pc = "raised"
       /\ returned = <<>>
       /\ credentials = "unset"
       /\ attempts = <<>>
       /\ warehouse = <<>>

\* loading is on, the first article was accumulated with its comment, a
\* comment of the second one raises
C13_Witness ==
    /\ stage = "fetch_user_articles_info"
    /\ load_to_bq
    /\ google_cloud_config = ConfigKeys(stage)
    /\ credentials_ok
    /\ Len(api) = 2
    /\ Len(tables["articles_info_df"]) = 2
    /\ Len(tables["articles_comments_info_df"]) = 1
    /\ api[2].answer.responses.kind = "list"
    /\ CommentRaises(api[2])
    /\ pc = "raised"

\* ---------------------------------------------------------------- C14
\* one row for each processed comment of the thread of e, with the id of the
\* article of e
CommentRows(e) ==
    LET cs == Thread(e)
    IN [i \in 1..Len(cs) |-> [id |-> CommentIds[cs[i].j], article_id |-> e.id]]

\* C14: the comments table holds exactly one row for each processed comment,
\* with or without tags and topics, and the article_id of the row is the id
\* of the article whose responses held the comment, whatever article_id the
\* raw comment carried
C14_CommentRowsCarryOwningArticle ==
    stage = "fetch_user_articles_info" =>
        tables["articles_comments_info_df"]
            = Flatten([i \in 1..Len(api) |-> CommentRows(api[i])])

\* article a1 has a comment without tags and a comment with tags that carries
\* the article_id a0; article a2 has a comment too
C14_Witness ==
    /\ stage = "fetch_user_articles_info"
    /\ pc = "returned"
    /\ Len(api) = 2
    /\ Len(Thread(api[1])) = 2
    /\ Len(Thread(api[2])) > 0
    /\ api[1].answer.responses.items[1].tags = NoneVal
    /\ api[1].answer.responses.items[2].tags # NoneVal
    /\ api[1].answer.responses.items[2].article_id = "a0"
    /\ Len(tables["articles_comments_info_df"]) > 2
    /\ tables["articles_comments_info_df"][2].article_id = "a1"

\* ---------------------------------------------------------------- C15
\* the identifiers of the article_ids lists the API gave in a run of
\* extract_users
ArticleIdsOf(run) ==
    UNION {Range(run.api[i].answer.article_ids.items) : i \in 1..Len(run.api)}

\* C15: fetch_user_articles_info, run on the users_articles_df of
\* extract_users, requests only identifiers of the users' article_ids lists,
\* never a null one
C15_OnlyRealArticleIdsRequested ==
    (stage = "fetch_user_articles_info" /\ history # <<>>) =>
        \A i \in 1..Len(api) :
            /\ api[i].id \notin {NaN, None}
            /\ api[i].id \in ArticleIdsOf(history[1])

\* ---------------------------------------------------------------- C12
\* the rows a destination of the warehouse holds
Batches(w, dest) == SelectSeq(w, LAMBDA batch : batch.dest = dest)
Contents(dest) ==
    LET bs == Batches(warehouse, dest)
    IN Flatten([i \in 1..Len(bs) |-> bs[i].rows])
\* the j-th table was appended successfully by the first run and by this one
LoadedTwice(j) == history[1].attempts[j].ok /\ attempts[j].ok
SecondRunEnded == history # <<>> /\ pc = "returned"
\* a step leaves the warehouse as it is or appends one batch to it
AppendOnly ==
    /\ Len(warehouse') \in {Len(warehouse), Len(warehouse) + 1}
    /\ SubSeq(warehouse', 1, Len(warehouse)) = warehouse
\* every table loaded by both runs has the rows of the first run twice
EveryRowTwice ==
    \A j \in 1..Len(StageTables(stage)) :
        LoadedTwice(j) =>
            LET rows == history[1].tables[StageTables(stage)[j]]
            IN Contents(Destination(j)) = rows \o rows

\* C12 as stated: after the second run of a node on the same API data every
\* table loaded successfully by both runs has each of its rows twice in the
\* warehouse, and no step of a run changes or removes what the warehouse holds
C12_EveryRowTwiceAppendOnly ==
    /\ [](SecondRunEnded => EveryRowTwice)
    /\ [][AppendOnly]_vars

\* C12 amended: the same, for fetch_top_feeds only when both runs happen on
\* the same date (its rows carry captured_on_date, the date of the run)
C12_SameDateRowsTwiceAppendOnly ==
    /\ [](/\ SecondRunEnded
          /\ stage = "fetch_top_feeds" => today_date = history[1].today_date
          => EveryRowTwice)
    /\ [][AppendOnly]_vars

\* both runs of fetch_top_feeds, on the same day, loaded the table, which
\* has the rows of a feed
C12_Witness ==
    /\ SecondRunEnded
    /\ Len(api) > 0
    /\ \A j \in 1..Len(StageTables(stage)) : LoadedTwice(j)
    /\ stage = "fetch_top_feeds"
    /\ today_date = history[1].today_date
    /\ Len(Contents(Destination(1))) = 2 * Len(tables["top_feeds_df"])
    /\ Len(tables["top_feeds_df"]) = MaxLen

====
